---- MODULE Spec2Model ----
(***************************************************************************)
(* Address-to-travel-point resolution of amakusa-travel-point-finder.      *)
(*                                                                         *)
(* The repository holds four revisions of the same script:                 *)
(*   "script"   src/script.js          (string results, permissive match)  *)
(*   "part_000" src/unnamed/part_000   (strict match, half-open ranges,    *)
(*                                      record results, try/catch)         *)
(*   "part_001" src/unnamed/part_001   (string results, permissive match)  *)
(*   "part_002" src/unnamed/part_002   (string results, try/catch)         *)
(*                                                                         *)
(* A JavaScript string is a sequence of characters; a character is written *)
(* as a short ASCII token:                                                 *)
(*   "0".."9"   standard digits          "F0".."F9"  full-width digits     *)
(*   "ban" 番   "chi" 地   "gou" 号   "no" の   "-" hyphen   "long" ー     *)
(*   "." period   " " white space   "x" any other character (none of the   *)
(*   above, no sign, no exponent letter)                                   *)
(*   "machi" 町 and the kanji of the town names (see the town section).    *)
(*                                                                         *)
(* A JavaScript number is [nan, ip, fd]: not-a-number, or the decimal      *)
(* numeral ip.fd (fd: fractional digits without trailing zeros).  All      *)
(* numerals within the bounds have fewer than 15 significant digits, where *)
(* IEEE doubles compare exactly as the decimal numerals do.                *)
(***************************************************************************)
EXTENDS Naturals, Integers, Sequences, FiniteSets, TLC

VARIABLES
    rev,              \* the revision whose functions are called
    TRAVEL_POINTS_DATA, \* the reference table (data.js)
    townName,         \* the town argument; in the page, the town-name field
    houseNumberStr,   \* the raw house-number string; the house-number field
    numericHouseNumber, \* the numeric key
    result,           \* what getTravelPoint gave its caller
    pc,               \* "start" -> "parsed" -> "done"; in the page, "load"
                      \* and then the outcome of the last event
    FACILITY_DATA,    \* the facility list (data.js)
    options,          \* the option values of the facility-select dropdown
    facilitySelect,   \* the value of the facility-select dropdown
    mode,             \* which search form is shown
    addressParts,     \* searchByFacility: what parseAddress returned
    display,          \* what displayResult last rendered, and how often the
                      \* last search handler called it
    escaped           \* an exception left the last event handler

\* the state of the page
ui == <<FACILITY_DATA, options, facilitySelect, mode, addressParts, display,
        escaped>>

vars == <<rev, TRAVEL_POINTS_DATA, townName, houseNumberStr,
          numericHouseNumber, result, pc, ui>>

(***************************************************************************)
(* Bounds                                                                  *)
(***************************************************************************)
\* longest raw house-number string enumerated character by character
MaxLen == 3
\* longest digit string of a composed house-number component
MaxDigits == 2
\* longest ranges list of a generated table entry
MaxRanges == 2
\* longest generated reference table
MaxEntries == 2
\* longest town name enumerated character by character
MaxTownLen == 3
\* longest text enumerated after the municipality prefix of an address
MaxAddrLen == 3

(***************************************************************************)
(* Characters and strings                                                  *)
(***************************************************************************)
StdDigits == <<"0", "1", "2", "3", "4", "5", "6", "7", "8", "9">>
FullWidthDigits == <<"F0", "F1", "F2", "F3", "F4", "F5", "F6", "F7", "F8", "F9">>

IsStdDigit(c) == \E i \in 1..10 : StdDigits[i] = c
IsFullWidthDigit(c) == \E i \in 1..10 : FullWidthDigits[i] = c
DigitValue(c) == (CHOOSE i \in 1..10 : StdDigits[i] = c) - 1

\* s => String.fromCharCode(s.charCodeAt(0) - 0xFEE0) on [０-９]
ToHalfWidth(c) ==
    IF IsFullWidthDigit(c)
    THEN StdDigits[CHOOSE i \in 1..10 : FullWidthDigits[i] = c]
    ELSE c

MapChars(Op(_), s) == [i \in 1..Len(s) |-> Op(s[i])]

\* String.prototype.startsWith / includes on character sequences
StartsWith(s, p) == Len(p) <= Len(s) /\ SubSeq(s, 1, Len(p)) = p
EndsWith(s, p) == Len(p) <= Len(s) /\ SubSeq(s, Len(s) - Len(p) + 1, Len(s)) = p
Includes(s, p) ==
    \E i \in 1..(Len(s) - Len(p) + 1) : SubSeq(s, i, i + Len(p) - 1) = p

\* str.replace(/pat/g, rep) for a literal pattern: leftmost, non-overlapping
RECURSIVE ReplaceAll(_, _, _)
ReplaceAll(s, pat, rep) ==
    IF s = <<>> THEN <<>>
    ELSE IF StartsWith(s, pat)
         THEN rep \o ReplaceAll(SubSeq(s, Len(pat) + 1, Len(s)), pat, rep)
         ELSE <<Head(s)>> \o ReplaceAll(Tail(s), pat, rep)

\* String.prototype.trim
RECURSIVE TrimStart(_)
TrimStart(s) ==
    IF s # <<>> /\ Head(s) = " " THEN TrimStart(Tail(s)) ELSE s
RECURSIVE TrimEnd(_)
TrimEnd(s) ==
    IF s # <<>> /\ s[Len(s)] = " " THEN TrimEnd(SubSeq(s, 1, Len(s) - 1)) ELSE s
Trim(s) == TrimEnd(TrimStart(s))

\* str.split('.') : the pieces between periods, empty pieces included
RECURSIVE SplitOn(_, _, _)
SplitOn(s, sep, cur) ==
    IF s = <<>> THEN <<cur>>
    ELSE IF Head(s) = sep
         THEN <<cur>> \o SplitOn(Tail(s), sep, <<>>)
         ELSE SplitOn(Tail(s), sep, Append(cur, Head(s)))
Split(s, sep) == SplitOn(s, sep, <<>>)

\* .filter(p => p.length > 0)
FilterNonEmpty(ps) == SelectSeq(ps, LAMBDA p : Len(p) > 0)

\* indexOf(c, from) and lastIndexOf(c): 0-based, -1 when absent
IndexOfFrom(s, c, from) ==
    IF \E i \in (from + 1)..Len(s) : s[i] = c
    THEN (CHOOSE i \in (from + 1)..Len(s) :
              s[i] = c /\ \A j \in (from + 1)..(i - 1) : s[j] # c) - 1
    ELSE -1
IndexOf(s, c) == IndexOfFrom(s, c, 0)
LastIndexOf(s, c) ==
    IF \E i \in 1..Len(s) : s[i] = c
    THEN (CHOOSE i \in 1..Len(s) :
              s[i] = c /\ \A j \in (i + 1)..Len(s) : s[j] # c) - 1
    ELSE -1

(***************************************************************************)
(* Numbers                                                                 *)
(***************************************************************************)
NaN == [nan |-> TRUE, ip |-> 0, fd |-> <<>>]

RECURSIVE StripTrailingZeros(_)
StripTrailingZeros(ds) ==
    IF ds # <<>> /\ ds[Len(ds)] = 0
    THEN StripTrailingZeros(SubSeq(ds, 1, Len(ds) - 1))
    ELSE ds

\* the number written ip.fd
Num(ip, fd) == [nan |-> FALSE, ip |-> ip, fd |-> StripTrailingZeros(fd)]
Whole(n) == Num(n, <<>>)

RECURSIVE DigitsToNat(_)
DigitsToNat(ds) ==
    IF ds = <<>> THEN 0
    ELSE 10 * DigitsToNat(SubSeq(ds, 1, Len(ds) - 1)) + DigitValue(ds[Len(ds)])

\* fractional digit sequences compared as decimals (no trailing zeros)
RECURSIVE FracLess(_, _)
FracLess(a, b) ==
    IF b = <<>> THEN FALSE
    ELSE IF a = <<>> THEN TRUE
    ELSE IF Head(a) # Head(b) THEN Head(a) < Head(b)
    ELSE FracLess(Tail(a), Tail(b))

\* JavaScript <, >=, === on numbers: every comparison with NaN is false
NumLt(a, b) ==
    /\ ~a.nan /\ ~b.nan
    /\ \/ a.ip < b.ip
       \/ a.ip = b.ip /\ FracLess(a.fd, b.fd)
NumEq(a, b) == ~a.nan /\ ~b.nan /\ a.ip = b.ip /\ a.fd = b.fd
NumGe(a, b) == ~a.nan /\ ~b.nan /\ ~NumLt(a, b)

\* the longest prefix of s made of standard digits
RECURSIVE DigitPrefix(_)
DigitPrefix(s) ==
    IF s # <<>> /\ IsStdDigit(Head(s))
    THEN <<Head(s)>> \o DigitPrefix(Tail(s))
    ELSE <<>>

\* parseFloat: leading white space skipped, then the longest prefix that is
\* a decimal literal (digits, digits. , digits.digits , .digits); NaN if none
parseFloat(str) ==
    LET s == TrimStart(str)
        ipart == DigitPrefix(s)
        rest == SubSeq(s, Len(ipart) + 1, Len(s))
        fpart == IF rest # <<>> /\ Head(rest) = "."
                 THEN DigitPrefix(Tail(rest)) ELSE <<>>
    IN  IF ipart = <<>> /\ fpart = <<>> THEN NaN
        ELSE Num(DigitsToNat(ipart), MapChars(DigitValue, fpart))

(***************************************************************************)
(* parseToNumeric                                                          *)
(***************************************************************************)
\* parseToNumeric of part_000 without the line that turns の into a period
parseToNumeric_strict_forgetsNo(s) ==
    IF s = <<>> THEN Whole(0)
    ELSE
    LET c1 == MapChars(ToHalfWidth, s)
        c2 == ReplaceAll(c1, <<"ban", "chi">>, <<".">>)
        c3 == ReplaceAll(c2, <<"ban">>, <<".">>)
        c4 == ReplaceAll(c3, <<"gou">>, <<".">>)
        c6 == MapChars(LAMBDA c : IF c \in {"-", "long"} THEN "." ELSE c, c4)
        parts == FilterNonEmpty(Split(c6, "."))
        cleanStr == IF Len(parts) >= 2 THEN parts[1] \o <<".">> \o parts[2]
                    ELSE IF Len(parts) = 1 THEN parts[1]
                    ELSE c6
    IN  parseFloat(Trim(cleanStr))

\* part_000: every separator becomes a period, the first two pieces are kept
parseToNumeric_strict(s) ==
    IF s = <<>> THEN Whole(0)
    ELSE
    LET c1 == MapChars(ToHalfWidth, s)
        c2 == ReplaceAll(c1, <<"ban", "chi">>, <<".">>)
        c3 == ReplaceAll(c2, <<"ban">>, <<".">>)
        c4 == ReplaceAll(c3, <<"gou">>, <<".">>)
        c5 == ReplaceAll(c4, <<"no">>, <<".">>)
        c6 == MapChars(LAMBDA c : IF c \in {"-", "long"} THEN "." ELSE c, c5)
        parts == FilterNonEmpty(Split(c6, "."))
        cleanStr == IF Len(parts) >= 2 THEN parts[1] \o <<".">> \o parts[2]
                    ELSE IF Len(parts) = 1 THEN parts[1]
                    ELSE c6
    IN  parseFloat(Trim(cleanStr))

\* str.replace(/番地|番|号|の/g, ''): one pass, 番地 tried before 番
RECURSIVE RemoveLotWords(_)
RemoveLotWords(s) ==
    IF s = <<>> THEN <<>>
    ELSE IF StartsWith(s, <<"ban", "chi">>) THEN RemoveLotWords(Tail(Tail(s)))
    ELSE IF Head(s) \in {"ban", "gou", "no"} THEN RemoveLotWords(Tail(s))
    ELSE <<Head(s)>> \o RemoveLotWords(Tail(s))

\* script.js, part_001: the separator words are deleted, only the hyphen
\* becomes a period, and the text from the second period on is dropped
parseToNumeric_legacy(s) ==
    IF s = <<>> THEN Whole(0)
    ELSE
    LET d4 == Trim(RemoveLotWords(s))
        d5 == MapChars(ToHalfWidth, d4)
        d6 == ReplaceAll(d5, <<"-">>, <<".">>)
        d7 == IF IndexOf(d6, ".") # LastIndexOf(d6, ".")
              THEN SubSeq(d6, 1, IndexOfFrom(d6, ".", IndexOf(d6, ".") + 1))
              ELSE d6
        d8 == IF EndsWith(d7, <<".">>) THEN SubSeq(d7, 1, Len(d7) - 1) ELSE d7
    IN  parseFloat(d8)

(***************************************************************************)
(* Messages and number formatting                                          *)
(* A fixed phrase of a message that holds none of the characters the code  *)
(* tests for is written as one token.                                      *)
(***************************************************************************)
\* "エラー:"
ErrorMarker == <<"E", "RA", "long", ":">>

RECURSIVE NatToDigits(_)
NatToDigits(n) ==
    IF n < 10 THEN <<StdDigits[n + 1]>>
    ELSE NatToDigits(n \div 10) \o <<StdDigits[(n % 10) + 1]>>

\* `${number}`
NumToStr(x) ==
    IF x.nan THEN <<"N", "a", "N">>
    ELSE NatToDigits(x.ip) \o
         (IF x.fd = <<>> THEN <<>>
          ELSE <<".">> \o [i \in 1..Len(x.fd) |-> StdDigits[x.fd[i] + 1]])

\* `エラー: 入力された町名「${townName}」に該当する旅費データが見つかりません。`
TownNotFoundMessage(town) ==
    ErrorMarker \o <<" ", "<nyuuryoku-sareta-choumei>", "[">> \o town
                \o <<"]", "<ni-gaitou-suru-data-nashi>">>
\* "エラー: 入力された地番の範囲を特定できませんでした。"
RangeNotFoundMessage == ErrorMarker \o <<" ", "<chiban-no-hani-tokutei-dekizu>">>
\* "エラー: 検索ロジック処理中に例外が発生しました。"
ExceptionMessage == ErrorMarker \o <<" ", "<reigai-ga-hassei>">>
\* `${rangeStart} 以上 ${rangeEnd} 未満`
RangeString(start, end) ==
    NumToStr(start) \o <<" ", "i", "jou2", " ">> \o NumToStr(end) \o <<" ", "mi", "man">>

(***************************************************************************)
(* Town names                                                              *)
(*   "machi" 町  "jou" 浄  "nan" 南  "hon" 本  "do" 渡  "hiro" 広  "se" 瀬  *)
(*   "kame" 亀  "ba" 場  "shoku" 食  "higashi" 東  "hama" 浜  "oo" 太       *)
(*   "ta" 田  "ten" ・  "i" 以  "gai" 外  "sa" 佐  "i2" 伊  "tsu" 津        *)
(*   "haji" 枦  "u" 宇  "to" 土  "o" "r" the letters of "or"               *)
(***************************************************************************)
\* '東・浄南・太田町以外'
CatchAllKey ==
    <<"higashi", "ten", "jou", "nan", "ten", "oo", "ta", "machi", "i", "gai">>
\* ['東町', '浄南町', '太田町']
ExcludedTowns ==
    {<<"higashi", "machi">>, <<"jou", "nan", "machi">>, <<"oo", "ta", "machi">>}

\* str.replace(/町$/, '')
StripMachi(s) ==
    IF s # <<>> /\ s[Len(s)] = "machi" THEN SubSeq(s, 1, Len(s) - 1) ELSE s
\* str.replace(/町$/, '').trim()
CleanTown(s) == Trim(StripMachi(s))

\* Array.prototype.find as the index of the first element satisfying P (0: none)
FindIndex(table, P(_)) ==
    IF \E i \in 1..Len(table) : P(table[i])
    THEN CHOOSE i \in 1..Len(table) :
             P(table[i]) /\ \A j \in 1..(i - 1) : ~P(table[j])
    ELSE 0

(***************************************************************************)
(* getTravelPoint: the matching step of each revision                      *)
(***************************************************************************)
\* the matching of part_000 with the substring tier put back
MatchesStrict_withSubstringTier(entry, town) ==
    \/ entry.town = town
    \/ CleanTown(entry.town) = CleanTown(town)
    \/ Includes(entry.town, CleanTown(town)) /\ Len(CleanTown(town)) > 1

\* part_000: exact, or equal once 町 is stripped from both
MatchesStrict(entry, town) ==
    \/ entry.town = town
    \/ CleanTown(entry.town) = CleanTown(town)

\* part_002: as part_000, or the key contains the cleaned input
MatchesContained(entry, town) ==
    \/ entry.town = town
    \/ CleanTown(entry.town) = CleanTown(town)
    \/ Includes(entry.town, CleanTown(town)) /\ Len(CleanTown(town)) > 1

\* script.js, part_001: also when the input contains the key
MatchesFlexible(entry, town) ==
    \/ entry.town = town
    \/ CleanTown(entry.town) = CleanTown(town)
    \/ Includes(town, entry.town) /\ Len(entry.town) > 2
    \/ Includes(entry.town, CleanTown(town)) /\ Len(CleanTown(town)) > 1

Matches(r, entry, town) ==
    CASE r = "part_000" -> MatchesStrict(entry, town)
      [] r = "part_002" -> MatchesContained(entry, town)
      [] OTHER -> MatchesFlexible(entry, town)

\* TRAVEL_POINTS_DATA.find(entry => ...) of the matching step
FoundEntry(r, table, town) ==
    FindIndex(table, LAMBDA entry : Matches(r, entry, town))

\* TRAVEL_POINTS_DATA.find(entry => entry.town === '東・浄南・太田町以外')
CatchAllEntry(table) == FindIndex(table, LAMBDA entry : entry.town = CatchAllKey)

\* part_000, part_002: !['東町', '浄南町', '太田町'].some(ex => townName.includes(ex))
FallbackUnlessExcluded(town) == ~\E ex \in ExcludedTowns : Includes(town, ex)
\* script.js: cleanInputTown === '東町' || ... === '浄南町' || ... === '太田町'
FallbackIfEqualsExcluded(town) == CleanTown(town) \in ExcludedTowns
\* part_001: cleanInputTown.includes('東町') || ...
FallbackIfContainsExcluded(town) ==
    \E ex \in ExcludedTowns : Includes(CleanTown(town), ex)

\* the condition under which an unmatched town falls back to the catch-all
FallbackApplies(r, town) ==
    CASE r \in {"part_000", "part_002"} -> FallbackUnlessExcluded(town)
      [] r = "script" -> FallbackIfEqualsExcluded(town)
      [] OTHER -> FallbackIfContainsExcluded(town)

\* targetEntry as an index into the table (0: none) and how it was chosen
TargetEntry(r, table, town) ==
    LET found == FoundEntry(r, table, town)
        catchAll == CatchAllEntry(table)
    IN  IF found # 0 THEN [index |-> found, via |-> "match"]
        ELSE IF FallbackApplies(r, town) /\ catchAll # 0
             THEN [index |-> catchAll, via |-> "fallback"]
             ELSE [index |-> 0, via |-> "none"]

(***************************************************************************)
(* getTravelPoint: the range loop of each revision                         *)
(* The loops give the index of the range returned, 0 when the loop ends    *)
(* without a return, -1 when it throws (a null element of ranges).         *)
(***************************************************************************)
InRange(key, range) == NumGe(key, range.start) /\ NumLt(key, range.end)

\* the loop of part_000 keeping the last match instead of returning the first
RECURSIVE RangeLoopHalfOpen_lastMatch(_, _, _)
RangeLoopHalfOpen_lastMatch(ranges, key, i) ==
    IF i > Len(ranges) THEN 0
    ELSE IF ~ranges[i].ok THEN -1
    ELSE LET later == RangeLoopHalfOpen_lastMatch(ranges, key, i + 1)
         IN  IF later # 0 THEN later
             ELSE IF NumGe(key, ranges[i].start) /\ NumLt(key, ranges[i].end)
                  THEN i ELSE 0

\* the loop of part_000 with the end of a range included
RECURSIVE RangeLoopHalfOpen_endInclusive(_, _, _)
RangeLoopHalfOpen_endInclusive(ranges, key, i) ==
    IF i > Len(ranges) THEN 0
    ELSE IF ~ranges[i].ok THEN -1
    ELSE IF NumGe(key, ranges[i].start)
            /\ (NumLt(key, ranges[i].end) \/ NumEq(key, ranges[i].end)) THEN i
    ELSE RangeLoopHalfOpen_endInclusive(ranges, key, i + 1)

\* part_000: start <= key < end and nothing else
RECURSIVE RangeLoopHalfOpen(_, _, _)
RangeLoopHalfOpen(ranges, key, i) ==
    IF i > Len(ranges) THEN 0
    ELSE IF ~ranges[i].ok THEN -1
    ELSE IF InRange(key, ranges[i]) THEN i
    ELSE RangeLoopHalfOpen(ranges, key, i + 1)

\* nextRange && numericHouseNumber === nextRange.start
NextStartsAt(ranges, key, i) ==
    i + 1 <= Len(ranges) /\ ranges[i + 1].ok /\ NumEq(key, ranges[i + 1].start)

\* the loop of script.js returning the range whose end the key equals without
\* looking at the next range
RECURSIVE RangeLoopEndAfter_noDeferral(_, _, _)
RangeLoopEndAfter_noDeferral(ranges, key, i) ==
    IF i > Len(ranges) THEN 0
    ELSE IF ~ranges[i].ok THEN -1
    ELSE IF InRange(key, ranges[i]) \/ NumEq(key, ranges[i].end) THEN i
    ELSE RangeLoopEndAfter_noDeferral(ranges, key, i + 1)

\* script.js: the half-open test first, then key === end
RECURSIVE RangeLoopEndAfter(_, _, _)
RangeLoopEndAfter(ranges, key, i) ==
    IF i > Len(ranges) THEN 0
    ELSE IF ~ranges[i].ok THEN -1
    ELSE IF InRange(key, ranges[i]) THEN i
    ELSE IF NumEq(key, ranges[i].end)
         THEN IF NextStartsAt(ranges, key, i)
              THEN RangeLoopEndAfter(ranges, key, i + 1)
              ELSE i
    ELSE RangeLoopEndAfter(ranges, key, i + 1)

\* part_001, part_002: the deferral to the next range first
RECURSIVE RangeLoopEndFirst(_, _, _)
RangeLoopEndFirst(ranges, key, i) ==
    IF i > Len(ranges) THEN 0
    ELSE IF ~ranges[i].ok THEN -1
    ELSE IF NumEq(key, ranges[i].end) /\ NextStartsAt(ranges, key, i)
         THEN RangeLoopEndFirst(ranges, key, i + 1)
    ELSE IF InRange(key, ranges[i]) THEN i
    ELSE IF NumEq(key, ranges[i].end) THEN i
    ELSE RangeLoopEndFirst(ranges, key, i + 1)

\* for (let i = 0; i < targetEntry.ranges.length; i++): a missing ranges
\* property throws at .length
RangeLoop(r, entry, key) ==
    IF ~entry.hasRanges THEN -1
    ELSE CASE r = "part_000" -> RangeLoopHalfOpen(entry.ranges, key, 1)
           [] r = "script" -> RangeLoopEndAfter(entry.ranges, key, 1)
           [] OTHER -> RangeLoopEndFirst(entry.ranges, key, 1)

(***************************************************************************)
(* getTravelPoint: the value given to the caller                           *)
(*   raised       an exception left the function                           *)
(*   point        the string returned (part_000: the point field)          *)
(*   matchedTown, rangeStr   the other fields of part_000's result; the    *)
(*                string-returning revisions have none (left empty)        *)
(*   entry, via, range   which targetEntry and range the call used         *)
(*                (0: none), for the statements below                      *)
(***************************************************************************)
NoResult ==
    [raised |-> FALSE, point |-> <<>>, matchedTown |-> <<>>, rangeStr |-> <<>>,
     entry |-> 0, via |-> "none", range |-> 0]

\* try { ... } catch (e) { return error } in part_000 and part_002
HasTryCatch(r) == r \in {"part_000", "part_002"}
\* part_000 returns {point, matchedTown, rangeStr}, the others a string
ReturnsRecord(r) == r = "part_000"

\* return { point: `エラー: ...「${townName}」...`, matchedTown: "", rangeStr: "" }
TownNotFoundResult(r, town) ==
    [NoResult EXCEPT !.point = TownNotFoundMessage(town)]

\* the catch block, or the exception leaving a revision without try/catch
ExceptionResult(r, target) ==
    IF HasTryCatch(r)
    THEN [NoResult EXCEPT !.point = ExceptionMessage,
                          !.entry = target.index, !.via = target.via]
    ELSE [NoResult EXCEPT !.raised = TRUE,
                          !.entry = target.index, !.via = target.via]

\* return { point: "エラー: ...", matchedTown: targetEntry.town, rangeStr: "" }
RangeNotFoundResult(r, target, entry) ==
    [NoResult EXCEPT !.point = RangeNotFoundMessage,
                     !.matchedTown = IF ReturnsRecord(r) THEN entry.town ELSE <<>>,
                     !.entry = target.index, !.via = target.via]

\* the success return with rangeStr left out
SuccessResult_noRangeStr(r, target, entry, hit) ==
    [NoResult EXCEPT !.point = entry.ranges[hit].location,
                     !.matchedTown = IF ReturnsRecord(r) THEN entry.town ELSE <<>>,
                     !.entry = target.index, !.via = target.via, !.range = hit]

\* return { point: range.location, matchedTown, rangeStr }
SuccessResult(r, target, entry, hit) ==
    [NoResult EXCEPT !.point = entry.ranges[hit].location,
                     !.matchedTown = IF ReturnsRecord(r) THEN entry.town ELSE <<>>,
                     !.rangeStr = IF ReturnsRecord(r)
                                  THEN RangeString(entry.ranges[hit].start,
                                                   entry.ranges[hit].end)
                                  ELSE <<>>,
                     !.entry = target.index, !.via = target.via, !.range = hit]

getTravelPoint(r, table, town, key) ==
    LET target == TargetEntry(r, table, town)
        entry == table[target.index]
        hit == RangeLoop(r, entry, key)
    IN  IF target.index = 0 THEN TownNotFoundResult(r, town)
        ELSE IF hit = -1 THEN ExceptionResult(r, target)
        ELSE IF hit = 0 THEN RangeNotFoundResult(r, target, entry)
        ELSE SuccessResult(r, target, entry, hit)

(***************************************************************************)
(* data.js                                                                 *)
(***************************************************************************)
Range(start, end, location) ==
    [ok |-> TRUE, start |-> start, end |-> end, location |-> location]
Entry(town, ranges) == [town |-> town, hasRanges |-> TRUE, ranges |-> ranges]

Hondo == <<"hon", "do">>
HondoOrKameba == <<"hon", "do", "o", "r", "kame", "ba">>
Saitsu == <<"sa", "i2", "tsu">>
Hajiuto == <<"haji", "u", "to">>
Kameba == <<"kame", "ba">>
KamebaOrHajiuto == <<"kame", "ba", "o", "r", "haji", "u", "to">>

Jounanmachi == <<"jou", "nan", "machi">>
HondomachiHirose == <<"hon", "do", "machi", "hiro", "se">>
KamebamachiJikiba == <<"kame", "ba", "machi", "shoku", "ba">>

DataJs ==
    << Entry(Jounanmachi,
             << Range(Whole(5), Whole(99999), HondoOrKameba),
                Range(Whole(0), Whole(5), Hondo) >>),
       Entry(HondomachiHirose,
             << Range(Whole(1), Whole(1470), Hondo),
                Range(Whole(1470), Whole(2080), Saitsu),
                Range(Whole(2080), Whole(99999), Hondo) >>),
       Entry(KamebamachiJikiba,
             << Range(Whole(1), Whole(340), Hajiuto),
                Range(Whole(340), Whole(700), Kameba),
                Range(Whole(700), Whole(800), Hajiuto),
                Range(Whole(800), Whole(900), KamebaOrHajiuto),
                Range(Whole(900), Whole(1200), Kameba),
                Range(Whole(1200), Whole(99999), Hajiuto) >>) >>

(***************************************************************************)
(* data.js: FACILITY_DATA                                                  *)
(*   "ama" 天  "kusa" 草  "ichi" 市  "fuku" 複  "gou2" 合  "shi_se" 施      *)
(*   "setsu" 設  "ko" こ  "ra" ら  "su" す  "yaku" 役  "sho" 所  "ushi" 牛  *)
(*   "buka" 深  "sou" 総  "SE" セ  "NN" ン  "TA" タ                         *)
(***************************************************************************)
\* '天草市'
AmakusaShi == <<"ama", "kusa", "ichi">>

Facility(name, address) == [name |-> name, address |-> address]

\* {"name": "天草市複合施設ここらす", "address": "天草市浄南町４番１５号"}
Kokorasu ==
    Facility(<<"ama", "kusa", "ichi", "fuku", "gou2", "shi_se", "setsu",
               "ko", "ko", "ra", "su">>,
             AmakusaShi \o <<"jou", "nan", "machi", "F4", "ban", "F1", "F5", "gou">>)
\* {"name": "天草市役所", "address": "天草市東浜町８番１号"}
Shiyakusho ==
    Facility(<<"ama", "kusa", "ichi", "yaku", "sho">>,
             AmakusaShi \o <<"higashi", "hama", "machi", "F8", "ban", "F1", "gou">>)
\* {"name": "牛深総合センター", "address": "天草市牛深町１６０番地"}
UshibukaCenter ==
    Facility(<<"ushi", "buka", "sou", "gou2", "SE", "NN", "TA", "long">>,
             AmakusaShi \o <<"ushi", "buka", "machi", "F1", "F6", "F0", "ban", "chi">>)

FacilityDataJs == <<Kokorasu, Shiyakusho, UshibukaCenter>>

\* the page before window.onload: nothing rendered, no option added
NoDisplay ==
    [calls |-> 0, input |-> <<>>, point |-> <<>>, matchedTown |-> <<>>,
     rangeStr |-> <<>>, style |-> "none"]

PageBlank ==
    /\ options = <<>>
    /\ facilitySelect = <<>>
    /\ mode = "address"
    /\ addressParts = [townName |-> <<>>, houseNumber |-> <<>>]
    /\ display = NoDisplay
    /\ escaped = FALSE

PageNotLoaded == FACILITY_DATA = FacilityDataJs /\ PageBlank

(***************************************************************************)
(* Operations                                                              *)
(***************************************************************************)
Revisions == {"script", "part_000", "part_001", "part_002"}

\* part_000: const numericHouseNum = parseToNumeric(houseNumStr)
ParseToNumericStrict ==
    /\ pc = "start"
    /\ rev = "part_000"
    /\ numericHouseNumber' = parseToNumeric_strict(houseNumberStr)
    /\ pc' = "parsed"
    /\ UNCHANGED <<rev, TRAVEL_POINTS_DATA, townName, houseNumberStr, result>>
    /\ UNCHANGED ui

\* script.js, part_001: const numericHouseNum = parseToNumeric(houseNumStr)
ParseToNumericLegacy ==
    /\ pc = "start"
    /\ rev \in {"script", "part_001"}
    /\ numericHouseNumber' = parseToNumeric_legacy(houseNumberStr)
    /\ pc' = "parsed"
    /\ UNCHANGED <<rev, TRAVEL_POINTS_DATA, townName, houseNumberStr, result>>
    /\ UNCHANGED ui

getTravelPoint_script(town, key) ==
    getTravelPoint("script", TRAVEL_POINTS_DATA, town, key)
getTravelPoint_part000(town, key) ==
    getTravelPoint("part_000", TRAVEL_POINTS_DATA, town, key)
getTravelPoint_part001(town, key) ==
    getTravelPoint("part_001", TRAVEL_POINTS_DATA, town, key)
getTravelPoint_part002(town, key) ==
    getTravelPoint("part_002", TRAVEL_POINTS_DATA, town, key)

\* script.js: const result = getTravelPoint(town, numericHouseNum)
GetTravelPointScript ==
    /\ pc = "parsed"
    /\ rev = "script"
    /\ result' = getTravelPoint_script(townName, numericHouseNumber)
    /\ pc' = "done"
    /\ UNCHANGED <<rev, TRAVEL_POINTS_DATA, townName, houseNumberStr,
                   numericHouseNumber>>
    /\ UNCHANGED ui

\* part_000: const result = getTravelPoint(town, numericHouseNum)
GetTravelPointPart000 ==
    /\ pc = "parsed"
    /\ rev = "part_000"
    /\ result' = getTravelPoint_part000(townName, numericHouseNumber)
    /\ pc' = "done"
    /\ UNCHANGED <<rev, TRAVEL_POINTS_DATA, townName, houseNumberStr,
                   numericHouseNumber>>
    /\ UNCHANGED ui

\* part_001: const result = getTravelPoint(town, numericHouseNum)
GetTravelPointPart001 ==
    /\ pc = "parsed"
    /\ rev = "part_001"
    /\ result' = getTravelPoint_part001(townName, numericHouseNumber)
    /\ pc' = "done"
    /\ UNCHANGED <<rev, TRAVEL_POINTS_DATA, townName, houseNumberStr,
                   numericHouseNumber>>
    /\ UNCHANGED ui

\* part_002: const result = getTravelPoint(town, numericHouseNum)
GetTravelPointPart002 ==
    /\ pc = "parsed"
    /\ rev = "part_002"
    /\ result' = getTravelPoint_part002(townName, numericHouseNumber)
    /\ pc' = "done"
    /\ UNCHANGED <<rev, TRAVEL_POINTS_DATA, townName, houseNumberStr,
                   numericHouseNumber>>
    /\ UNCHANGED ui

(***************************************************************************)
(* parseAddress                                                            *)
(***************************************************************************)
\* str.split('天草市'): the pieces between the occurrences of a string
RECURSIVE SplitOnString(_, _, _)
SplitOnString(s, sep, cur) ==
    IF s = <<>> THEN <<cur>>
    ELSE IF StartsWith(s, sep)
         THEN <<cur>> \o SplitOnString(SubSeq(s, Len(sep) + 1, Len(s)), sep, <<>>)
         ELSE SplitOnString(Tail(s), sep, Append(cur, Head(s)))

\* [0-9０-９]
IsAnyDigit(c) == IsStdDigit(c) \/ IsFullWidthDigit(c)

\* address.match(/^(.+?)([0-9０-９]+.*)$/): the length of match[1], the
\* shortest non-empty prefix that a digit follows; 0 when there is no match
LazyPrefixLen(address) ==
    IF \E k \in 1..(Len(address) - 1) : IsAnyDigit(address[k + 1])
    THEN CHOOSE k \in 1..(Len(address) - 1) :
             /\ IsAnyDigit(address[k + 1])
             /\ \A j \in 1..(k - 1) : ~IsAnyDigit(address[j + 1])
    ELSE 0

\* script.js, part_000, part_001
parseAddress(fullAddress) ==
    LET parts == SplitOnString(fullAddress, AmakusaShi, <<>>)
        address == Trim(parts[2])
        k == LazyPrefixLen(address)
    IN  IF Len(parts) < 2 THEN [townName |-> <<>>, houseNumber |-> <<>>]
        ELSE IF k > 0
             THEN [townName |-> Trim(SubSeq(address, 1, k)),
                   houseNumber |-> Trim(SubSeq(address, k + 1, Len(address)))]
             ELSE [townName |-> Trim(address), houseNumber |-> <<>>]

\* part_002 calls parseAddress and parseToNumeric and defines neither; they
\* are taken from sections 4.2 and 4.1 of the specification
FirstIndexOf(s, p) ==
    CHOOSE i \in 1..(Len(s) - Len(p) + 1) :
        /\ SubSeq(s, i, i + Len(p) - 1) = p
        /\ \A j \in 1..(i - 1) : SubSeq(s, j, j + Len(p) - 1) # p

parseAddress_part002(fullAddress) ==
    IF ~Includes(fullAddress, AmakusaShi)
    THEN [townName |-> <<>>, houseNumber |-> <<>>]
    ELSE LET from == FirstIndexOf(fullAddress, AmakusaShi) + Len(AmakusaShi)
             rest == SubSeq(fullAddress, from, Len(fullAddress))
             digits == {i \in 1..Len(rest) : IsAnyDigit(rest[i])}
             d == CHOOSE i \in digits : \A j \in digits : i <= j
         IN  IF digits = {} THEN [townName |-> Trim(rest), houseNumber |-> <<>>]
             ELSE [townName |-> Trim(SubSeq(rest, 1, d - 1)),
                   houseNumber |-> Trim(SubSeq(rest, d, Len(rest)))]

parseToNumeric_part002(s) == parseToNumeric_strict(s)

(***************************************************************************)
(* displayResult                                                           *)
(*   style "error": red border, the failure note; "ambiguous": yellow      *)
(*   border, the note on "or"; "success": green border, the plain note     *)
(***************************************************************************)
\* only the upper-case test of the line below
isAmbiguous_upperCaseOnly(point) == Includes(point, <<"O", "R">>)

\* point.includes("or") || point.includes("OR")
isAmbiguous(point) ==
    Includes(point, <<"o", "r">>) \/ Includes(point, <<"O", "R">>)

\* script.js, part_001, part_002: displayResult(input, point, isAmbiguous)
displayResult_legacy(d, input, point, ambiguous) ==
    [calls |-> d.calls + 1, input |-> input, point |-> point,
     matchedTown |-> <<>>, rangeStr |-> <<>>,
     style |-> IF StartsWith(point, ErrorMarker) THEN "error"
               ELSE IF ambiguous THEN "ambiguous" ELSE "success"]

\* part_000: displayResult(input, resultObj, isFacilitySearch)
displayResult_part000(d, input, resultObj) ==
    [calls |-> d.calls + 1, input |-> input, point |-> resultObj.point,
     matchedTown |-> resultObj.matchedTown, rangeStr |-> resultObj.rangeStr,
     style |-> IF StartsWith(resultObj.point, ErrorMarker) THEN "error"
               ELSE IF isAmbiguous(resultObj.point) THEN "ambiguous"
               ELSE "success"]

(***************************************************************************)
(* searchByAddress, searchByFacility: what the handlers build and look up  *)
(***************************************************************************)
\* a handler run that has not called displayResult
NotDisplayed(d) == [d EXCEPT !.calls = 0]

\* `住所: ${town} ${houseNumStr}`
AddressInputStr(town, house) == <<"<juusho>", ":", " ">> \o town \o <<" ">> \o house
\* `施設名: ${facilityName} (${facility.address})`
FacilityInputStr(name, address) ==
    <<"<shisetsumei>", ":", " ">> \o name \o <<" ", "(">> \o address \o <<")">>

\* FACILITY_DATA.find(f => f.name === facilityName) as an index (0: undefined)
FindFacility(facilities, facilityName) ==
    IF \E i \in 1..Len(facilities) : facilities[i].name = facilityName
    THEN CHOOSE i \in 1..Len(facilities) :
             /\ facilities[i].name = facilityName
             /\ \A j \in 1..(i - 1) : facilities[j].name # facilityName
    ELSE 0

(***************************************************************************)
(* initializeApp                                                           *)
(***************************************************************************)
\* the words getFacilityType looks for, by the code it returns:
\* 市役所 支所 / 公民館 コミュニティセンター 交流センター / 中学校 / 小学校 /
\* 幼稚園 / 体育館 グラウンド 運動広場 テニスコート 相撲場 / 図書館 博物館
\* 資料館 アーカイブズ 生涯学習センター 市民センター / 給食センター
FacilityTypeWords ==
    << {<<"ichi", "yaku", "sho">>, <<"shi_branch", "sho">>},
       {<<"kou", "min", "kan">>,
        <<"KO", "MI", "yu", "NI", "TE", "i_small", "SE", "NN", "TA", "long">>,
        <<"kou2", "ryuu", "SE", "NN", "TA", "long">>},
       {<<"chuu", "gaku", "kou3">>},
       {<<"shou", "gaku", "kou3">>},
       {<<"you", "chi2", "en">>},
       {<<"tai", "iku", "kan">>, <<"GU", "RA", "U", "NN", "DO">>,
        <<"un", "dou", "hiro", "ba">>, <<"TE", "NI", "SU", "KO", "long", "TO">>,
        <<"sou2", "boku", "ba">>},
       {<<"zu", "sho2", "kan">>, <<"haku", "butsu", "kan">>,
        <<"shi_fund", "ryou", "kan">>, <<"A", "long", "KA", "I", "BU", "ZU">>,
        <<"sei", "gai2", "gaku", "shuu", "SE", "NN", "TA", "long">>,
        <<"ichi", "min", "SE", "NN", "TA", "long">>},
       {<<"kyuu", "shoku", "SE", "NN", "TA", "long">>} >>

\* part_000, part_001, part_002: the first code whose words the name includes
getFacilityType(name) ==
    LET hits == {t \in 1..Len(FacilityTypeWords) :
                    \E w \in FacilityTypeWords[t] : Includes(name, w)}
    IN  IF hits = {} THEN Len(FacilityTypeWords) + 1
        ELSE CHOOSE t \in hits : \A u \in hits : t <= u

\* a.name.localeCompare(b.name, 'ja') compares character by character in the
\* order of the runtime's collation data: the Japanese tailoring (kana, then
\* kanji in JIS X 0208 order) or, without locale data, the root order (code
\* points).  The characters of the facility names in either order:
\*   ja:   こ す セ タ ら ン ー 牛 合 市 施 所 深 設 総 草 天 複 役
\*   root: こ す ら セ タ ン ー 合 天 市 役 所 施 深 牛 総 草 複 設
Collations == {"ja", "root"}
CollationOrder(coll) ==
    IF coll = "ja"
    THEN <<"ko", "su", "SE", "TA", "ra", "NN", "long", "ushi", "gou2", "ichi",
           "shi_se", "sho", "buka", "setsu", "sou", "kusa", "ama", "fuku", "yaku">>
    ELSE <<"ko", "su", "ra", "SE", "TA", "NN", "long", "gou2", "ama", "ichi",
           "yaku", "sho", "shi_se", "buka", "ushi", "sou", "kusa", "fuku", "setsu">>
CollationWeight(coll, c) ==
    LET order == CollationOrder(coll)
    IN  IF \E i \in 1..Len(order) : order[i] = c
        THEN CHOOSE i \in 1..Len(order) : order[i] = c
        ELSE 0

\* negative, zero or positive
RECURSIVE localeCompare(_, _, _)
localeCompare(a, b, coll) ==
    IF a = <<>> /\ b = <<>> THEN 0
    ELSE IF a = <<>> THEN -1
    ELSE IF b = <<>> THEN 1
    ELSE IF CollationWeight(coll, Head(a)) # CollationWeight(coll, Head(b))
         THEN CollationWeight(coll, Head(a)) - CollationWeight(coll, Head(b))
         ELSE localeCompare(Tail(a), Tail(b), coll)

\* script.js: (a, b) => a.name.localeCompare(b.name, 'ja')
CompareByName(coll, a, b) == localeCompare(a.name, b.name, coll)
\* part_000, part_001, part_002: by type code, then by name
CompareByTypeThenName(coll, a, b) ==
    IF getFacilityType(a.name) # getFacilityType(b.name)
    THEN getFacilityType(a.name) - getFacilityType(b.name)
    ELSE localeCompare(a.name, b.name, coll)
Compare(r, coll, a, b) ==
    IF r = "script" THEN CompareByName(coll, a, b)
    ELSE CompareByTypeThenName(coll, a, b)

\* Array.prototype.sort: stable, by the revision's comparator
RECURSIVE Sort(_, _, _)
Sort(r, coll, list) ==
    IF list = <<>> THEN <<>>
    ELSE LET n == Len(list)
             x == list[n]
             sorted == Sort(r, coll, SubSeq(list, 1, n - 1))
             after == {i \in 1..(n - 1) : Compare(r, coll, sorted[i], x) > 0}
             at == IF after = {} THEN n
                   ELSE CHOOSE i \in after : \A j \in after : i <= j
         IN  SubSeq(sorted, 1, at - 1) \o <<x>> \o SubSeq(sorted, at, n - 1)

\* part_000, part_002: the facilities whose name|address was not seen before
uniqueFacilities(list) ==
    LET firsts == {i \in 1..Len(list) : \A j \in 1..(i - 1) : list[j] # list[i]}
    IN  SelectSeq([i \in 1..Len(list) |-> [at |-> i, f |-> list[i]]],
                  LAMBDA e : e.at \in firsts)

\* the names appended to the dropdown, in order
OptionValues(list) == [i \in 1..Len(list) |-> list[i].name]

\* part_000, part_002: a copy is sorted
sortedCopy(r, coll, facilities) ==
    LET unique == uniqueFacilities(facilities)
    IN  Sort(r, coll, [i \in 1..Len(unique) |-> unique[i].f])

\* script.js, part_001: FACILITY_DATA.sort(...) sorts the array itself
sortedInPlace(r, coll, facilities) == Sort(r, coll, facilities)

(***************************************************************************)
(* Inputs of the house-number parser                                       *)
(***************************************************************************)
StringsUpTo(alphabet, n) == UNION {[1..k -> alphabet] : k \in 0..n}

RawAlphabet == {"1", "F5", "ban", "chi", "gou", "no", "-", "long", ".", " ", "x"}
RawStrings == StringsUpTo(RawAlphabet, MaxLen)

ComponentDigits == {"0", "1", "F5"}
DigitStrings == StringsUpTo(ComponentDigits, MaxDigits) \ {<<>>}
\* 番地, 番, 号, の, hyphen, ー
Separators == {<<"ban", "chi">>, <<"ban">>, <<"gou">>, <<"no">>, <<"-">>, <<"long">>}
\* what may follow the second component: nothing, a separator, a third component
Tails == {<<>>, <<"gou">>, <<"-">>, <<"gou", "9">>, <<"-", "9">>}
ComposedStrings ==
    {P \o sep \o S \o t : P \in DigitStrings, sep \in Separators,
                          S \in DigitStrings, t \in Tails}
    \cup {P \o sep : P \in DigitStrings, sep \in Separators \cup {<<>>}}
\* "４番１５号", "1470番", "1470番地", "700番", "1-2-3", "1-2", "4番15号", "4-15", "4の15"
ExampleStrings ==
    { <<"F4", "ban", "F1", "F5", "gou">>, <<"1", "4", "7", "0", "ban">>,
      <<"1", "4", "7", "0", "ban", "chi">>, <<"7", "0", "0", "ban">>,
      <<"1", "-", "2", "-", "3">>, <<"1", "-", "2">>,
      <<"4", "ban", "1", "5", "gou">>, <<"4", "-", "1", "5">>, <<"4", "no", "1", "5">> }
HouseInputs == RawStrings \cup ComposedStrings \cup ExampleStrings

(***************************************************************************)
(* Specifications                                                          *)
(***************************************************************************)
\* the house-number parsers on every input, then the lookup in data.js
InitParse ==
    /\ PageNotLoaded
    /\ rev \in {"script", "part_000", "part_001"}
    /\ TRAVEL_POINTS_DATA = DataJs
    /\ townName = Jounanmachi
    /\ houseNumberStr \in HouseInputs
    /\ numericHouseNumber = NaN
    /\ result = NoResult
    /\ pc = "start"

NextParse ==
    \/ ParseToNumericStrict
    \/ ParseToNumericLegacy
    \/ GetTravelPointScript
    \/ GetTravelPointPart000
    \/ GetTravelPointPart001

SpecParse == InitParse /\ [][NextParse]_vars

(***************************************************************************)
(* Generated entries: ranges lists that may be unsorted, overlapping,      *)
(* gapped, hold a null element, or be missing                              *)
(***************************************************************************)
RangeBounds == {0, 5, 9}
\* a null element of a ranges list
NullRange == [ok |-> FALSE, start |-> NaN, end |-> NaN, location |-> <<>>]
\* the i-th range of a generated list carries its own location
LocationAt(i) ==
    CASE i = 1 -> Hondo [] i = 2 -> HondoOrKameba [] i = 3 -> Saitsu [] OTHER -> Hajiuto
RangeShapes == (RangeBounds \X RangeBounds) \cup {<<"null">>}
RangeLists ==
    UNION { { [i \in 1..k |->
                 IF f[i] = <<"null">> THEN NullRange
                 ELSE Range(Whole(f[i][1]), Whole(f[i][2]), LocationAt(i))]
              : f \in [1..k -> RangeShapes] }
            : k \in 0..MaxRanges }
GeneratedEntries ==
    {Entry(Jounanmachi, ranges) : ranges \in RangeLists}
    \cup {[town |-> Jounanmachi, hasRanges |-> FALSE, ranges |-> <<>>]}
\* NaN, 0, 4.15, 5, 7, 9, 10
RangeKeys ==
    {NaN, Whole(0), Num(4, <<1, 5>>), Whole(5), Whole(7), Whole(9), Whole(10)}
Higashimachi == <<"higashi", "machi">>

\* direct calls of getTravelPoint on a one-entry table
InitRange ==
    /\ PageNotLoaded
    /\ rev \in Revisions
    /\ TRAVEL_POINTS_DATA \in {<<e>> : e \in GeneratedEntries}
    /\ townName \in {Jounanmachi, Higashimachi}
    /\ houseNumberStr = <<>>
    /\ numericHouseNumber \in RangeKeys
    /\ result = NoResult
    /\ pc = "parsed"

NextLookup ==
    \/ GetTravelPointScript
    \/ GetTravelPointPart000
    \/ GetTravelPointPart001
    \/ GetTravelPointPart002

SpecRange == InitRange /\ [][NextLookup]_vars

(***************************************************************************)
(* Generated tables: every order of a few town keys, the catch-all among   *)
(* them; each entry covers [0, 99999)                                      *)
(***************************************************************************)
Jounan == <<"jou", "nan">>
Jikiba == <<"shoku", "ba">>
Higashihamamachi == <<"higashi", "hama", "machi">>
Ootamachi == <<"oo", "ta", "machi">>
\* 本渡浄南町: a name that contains the key 浄南町
HondoJounanmachi == <<"hon", "do", "jou", "nan", "machi">>
\* 存在しない町
Sonzaishinaimachi == <<"son", "zai", "shi", "na", "i3", "machi">>

TableKeys == {Jounan, Jounanmachi, KamebamachiJikiba, CatchAllKey}
GeneratedTables ==
    UNION { { [i \in 1..k |->
                 Entry(f[i], <<Range(Whole(0), Whole(99999), LocationAt(i))>>)]
              : f \in [1..k -> TableKeys] }
            : k \in 0..MaxEntries }
TownInputs ==
    {Jounan, Jounanmachi, Jikiba, KamebamachiJikiba, HondoJounanmachi,
     Higashimachi, Higashihamamachi, Ootamachi, Sonzaishinaimachi, CatchAllKey}

\* direct calls of getTravelPoint on generated tables
InitTown ==
    /\ PageNotLoaded
    /\ rev \in Revisions
    /\ TRAVEL_POINTS_DATA \in GeneratedTables
    /\ townName \in TownInputs
    /\ houseNumberStr = <<>>
    /\ numericHouseNumber = Whole(1)
    /\ result = NoResult
    /\ pc = "parsed"

SpecTown == InitTown /\ [][NextLookup]_vars

(***************************************************************************)
(* The program on data.js: a search from a house-number string, or a       *)
(* direct call with a key.  Both callers trim the town name.               *)
(***************************************************************************)
TownAlphabet == {"jou", "nan", "machi", " ", "x"}
\* 浄南 町, 本渡, 本渡町広瀬町
DataTownExamples ==
    {<<"jou", "nan", " ", "machi">>, Hondo, Append(HondomachiHirose, "machi")}
DataTowns ==
    {t \in StringsUpTo(TownAlphabet, MaxTownLen) : Trim(t) = t}
    \cup {DataJs[i].town : i \in 1..Len(DataJs)}
    \cup TownInputs \cup DataTownExamples
\* NaN, 0, 4.15, 5, 700, 1470, 99999, 100000
DataKeys ==
    {NaN, Whole(0), Num(4, <<1, 5>>), Whole(5), Whole(700), Whole(1470),
     Whole(99999), Whole(100000)}

Init ==
    /\ PageNotLoaded
    /\ rev \in Revisions
    /\ TRAVEL_POINTS_DATA = DataJs
    /\ townName \in DataTowns
    /\ result = NoResult
    /\ \/ /\ pc = "start"
          /\ rev # "part_002"
          /\ houseNumberStr \in ExampleStrings
          /\ numericHouseNumber = NaN
       \/ /\ pc = "parsed"
          /\ houseNumberStr = <<>>
          /\ numericHouseNumber \in DataKeys

Next ==
    \/ ParseToNumericStrict
    \/ ParseToNumericLegacy
    \/ GetTravelPointScript
    \/ GetTravelPointPart000
    \/ GetTravelPointPart001
    \/ GetTravelPointPart002

Spec == Init /\ [][Next]_vars

(***************************************************************************)
(* The page: window.onload runs initializeApp; then the user fills in the  *)
(* form that is shown, switches the form, or starts a search.              *)
(***************************************************************************)
\* the events after which the page takes the next one
PageReady == {"initializeApp", "input", "click", "searchByAddress", "searchByFacility"}

\* script.js: initializeApp, run by window.onload
InitializeAppScript ==
    /\ pc = "load"
    /\ rev = "script"
    /\ \E coll \in Collations :
          /\ FACILITY_DATA' = sortedInPlace("script", coll, FACILITY_DATA)
          /\ options' = options \o OptionValues(FACILITY_DATA')
    /\ pc' = "initializeApp"
    /\ UNCHANGED <<rev, TRAVEL_POINTS_DATA, townName, houseNumberStr,
                   numericHouseNumber, result, facilitySelect, mode, addressParts,
                   display, escaped>>

\* part_000: initializeApp, run by window.onload
InitializeAppPart000 ==
    /\ pc = "load"
    /\ rev = "part_000"
    /\ \E coll \in Collations :
          /\ FACILITY_DATA' = FACILITY_DATA
          /\ options' = options \o
                           OptionValues(sortedCopy("part_000", coll, FACILITY_DATA))
    /\ pc' = "initializeApp"
    /\ UNCHANGED <<rev, TRAVEL_POINTS_DATA, townName, houseNumberStr,
                   numericHouseNumber, result, facilitySelect, mode, addressParts,
                   display, escaped>>

\* part_001: initializeApp, run by window.onload
InitializeAppPart001 ==
    /\ pc = "load"
    /\ rev = "part_001"
    /\ \E coll \in Collations :
          /\ FACILITY_DATA' = sortedInPlace("part_001", coll, FACILITY_DATA)
          /\ options' = options \o OptionValues(FACILITY_DATA')
    /\ pc' = "initializeApp"
    /\ UNCHANGED <<rev, TRAVEL_POINTS_DATA, townName, houseNumberStr,
                   numericHouseNumber, result, facilitySelect, mode, addressParts,
                   display, escaped>>

\* part_002: initializeApp, run by window.onload
InitializeAppPart002 ==
    /\ pc = "load"
    /\ rev = "part_002"
    /\ \E coll \in Collations :
          /\ FACILITY_DATA' = FACILITY_DATA
          /\ options' = options \o
                           OptionValues(sortedCopy("part_002", coll, FACILITY_DATA))
    /\ pc' = "initializeApp"
    /\ UNCHANGED <<rev, TRAVEL_POINTS_DATA, townName, houseNumberStr,
                   numericHouseNumber, result, facilitySelect, mode, addressParts,
                   display, escaped>>

\* 浄南町, 存在しない町, and the empty field
PageTowns == {<<>>, Jounanmachi, Sonzaishinaimachi}
\* "４番１５号", "5", and the empty field
PageHouseNumbers == {<<>>, <<"F4", "ban", "F1", "F5", "gou">>, <<"5">>}

\* the user fills in the town-name and house-number fields
TypeAddress ==
    /\ pc \in PageReady
    /\ mode = "address"
    /\ \E town \in PageTowns, house \in PageHouseNumbers :
          /\ townName' = town
          /\ houseNumberStr' = house
    /\ pc' = "input"
    /\ UNCHANGED <<rev, TRAVEL_POINTS_DATA, numericHouseNumber, result, ui>>

\* the user picks an option of the dropdown, or its empty first line
SelectFacility ==
    /\ pc \in PageReady
    /\ mode = "facility"
    /\ \E v \in {options[i] : i \in 1..Len(options)} \cup {<<>>} :
          facilitySelect' = v
    /\ pc' = "input"
    /\ UNCHANGED <<rev, TRAVEL_POINTS_DATA, townName, houseNumberStr,
                   numericHouseNumber, result, FACILITY_DATA, options, mode,
                   addressParts, display, escaped>>

\* modeAddressBtn click; part_000 also empties the dropdown's value
ClickModeAddress ==
    /\ pc \in PageReady
    /\ mode' = "address"
    /\ facilitySelect' = IF rev = "part_000" THEN <<>> ELSE facilitySelect
    /\ pc' = "click"
    /\ UNCHANGED <<rev, TRAVEL_POINTS_DATA, townName, houseNumberStr,
                   numericHouseNumber, result, FACILITY_DATA, options,
                   addressParts, display, escaped>>

\* modeFacilityBtn click; part_000 also empties the two address fields
ClickModeFacility ==
    /\ pc \in PageReady
    /\ mode' = "facility"
    /\ townName' = IF rev = "part_000" THEN <<>> ELSE townName
    /\ houseNumberStr' = IF rev = "part_000" THEN <<>> ELSE houseNumberStr
    /\ pc' = "click"
    /\ UNCHANGED <<rev, TRAVEL_POINTS_DATA, numericHouseNumber, result,
                   FACILITY_DATA, options, facilitySelect, addressParts, display,
                   escaped>>

\* script.js: searchByAddress; no try/catch, an exception of getTravelPoint
\* leaves the handler before displayResult
SearchByAddressScript ==
    /\ pc \in PageReady
    /\ rev = "script"
    /\ mode = "address"
    /\ IF Trim(townName) = <<>> \/ Trim(houseNumberStr) = <<>>
       THEN \* alert(...); return
            /\ numericHouseNumber' = numericHouseNumber
            /\ result' = NoResult
            /\ escaped' = FALSE
            /\ display' = NotDisplayed(display)
       ELSE /\ numericHouseNumber' = parseToNumeric_legacy(Trim(houseNumberStr))
            /\ result' = getTravelPoint_script(Trim(townName), numericHouseNumber')
            /\ escaped' = result'.raised
            /\ display' = IF result'.raised THEN NotDisplayed(display)
                          ELSE displayResult_legacy(NotDisplayed(display),
                                    AddressInputStr(Trim(townName),
                                                    Trim(houseNumberStr)),
                                    result'.point, isAmbiguous(result'.point))
    /\ pc' = "searchByAddress"
    /\ UNCHANGED <<rev, TRAVEL_POINTS_DATA, townName, houseNumberStr,
                   FACILITY_DATA, options, facilitySelect, mode, addressParts>>

\* part_000: searchByAddress; no try/catch, an exception of getTravelPoint
\* leaves the handler before displayResult
SearchByAddressPart000 ==
    /\ pc \in PageReady
    /\ rev = "part_000"
    /\ mode = "address"
    /\ IF Trim(townName) = <<>> \/ Trim(houseNumberStr) = <<>>
       THEN \* alert(...); return
            /\ numericHouseNumber' = numericHouseNumber
            /\ result' = NoResult
            /\ escaped' = FALSE
            /\ display' = NotDisplayed(display)
       ELSE /\ numericHouseNumber' = parseToNumeric_strict(Trim(houseNumberStr))
            /\ result' = getTravelPoint_part000(Trim(townName), numericHouseNumber')
            /\ escaped' = result'.raised
            /\ display' = IF result'.raised THEN NotDisplayed(display)
                          ELSE displayResult_part000(NotDisplayed(display),
                                    AddressInputStr(Trim(townName),
                                                    Trim(houseNumberStr)),
                                    result')
    /\ pc' = "searchByAddress"
    /\ UNCHANGED <<rev, TRAVEL_POINTS_DATA, townName, houseNumberStr,
                   FACILITY_DATA, options, facilitySelect, mode, addressParts>>

\* part_001: searchByAddress; no try/catch, an exception of getTravelPoint
\* leaves the handler before displayResult
SearchByAddressPart001 ==
    /\ pc \in PageReady
    /\ rev = "part_001"
    /\ mode = "address"
    /\ IF Trim(townName) = <<>> \/ Trim(houseNumberStr) = <<>>
       THEN \* alert(...); return
            /\ numericHouseNumber' = numericHouseNumber
            /\ result' = NoResult
            /\ escaped' = FALSE
            /\ display' = NotDisplayed(display)
       ELSE /\ numericHouseNumber' = parseToNumeric_legacy(Trim(houseNumberStr))
            /\ result' = getTravelPoint_part001(Trim(townName), numericHouseNumber')
            /\ escaped' = result'.raised
            /\ display' = IF result'.raised THEN NotDisplayed(display)
                          ELSE displayResult_legacy(NotDisplayed(display),
                                    AddressInputStr(Trim(townName),
                                                    Trim(houseNumberStr)),
                                    result'.point, isAmbiguous(result'.point))
    /\ pc' = "searchByAddress"
    /\ UNCHANGED <<rev, TRAVEL_POINTS_DATA, townName, houseNumberStr,
                   FACILITY_DATA, options, facilitySelect, mode, addressParts>>

\* part_002: searchByAddress; no try/catch, an exception of getTravelPoint
\* leaves the handler before displayResult
SearchByAddressPart002 ==
    /\ pc \in PageReady
    /\ rev = "part_002"
    /\ mode = "address"
    /\ IF Trim(townName) = <<>> \/ Trim(houseNumberStr) = <<>>
       THEN \* alert(...); return
            /\ numericHouseNumber' = numericHouseNumber
            /\ result' = NoResult
            /\ escaped' = FALSE
            /\ display' = NotDisplayed(display)
       ELSE /\ numericHouseNumber' = parseToNumeric_part002(Trim(houseNumberStr))
            /\ result' = getTravelPoint_part002(Trim(townName), numericHouseNumber')
            /\ escaped' = result'.raised
            /\ display' = IF result'.raised THEN NotDisplayed(display)
                          ELSE displayResult_legacy(NotDisplayed(display),
                                    AddressInputStr(Trim(townName),
                                                    Trim(houseNumberStr)),
                                    result'.point, isAmbiguous(result'.point))
    /\ pc' = "searchByAddress"
    /\ UNCHANGED <<rev, TRAVEL_POINTS_DATA, townName, houseNumberStr,
                   FACILITY_DATA, options, facilitySelect, mode, addressParts>>

\* script.js: searchByFacility; facility.address throws when find gave undefined
SearchByFacilityScript ==
    /\ pc \in PageReady
    /\ rev = "script"
    /\ mode = "facility"
    /\ IF facilitySelect = <<>>
       THEN \* alert(...); return
            /\ addressParts' = addressParts
            /\ numericHouseNumber' = numericHouseNumber
            /\ result' = NoResult
            /\ escaped' = FALSE
            /\ display' = NotDisplayed(display)
       ELSE IF FindFacility(FACILITY_DATA, facilitySelect) = 0
       THEN /\ addressParts' = addressParts
            /\ numericHouseNumber' = numericHouseNumber
            /\ result' = NoResult
            /\ escaped' = TRUE
            /\ display' = NotDisplayed(display)
       ELSE LET facility == FACILITY_DATA[FindFacility(FACILITY_DATA, facilitySelect)]
            IN  /\ addressParts' = parseAddress(facility.address)
                /\ numericHouseNumber' = parseToNumeric_legacy(addressParts'.houseNumber)
                /\ result' = getTravelPoint_script(addressParts'.townName, numericHouseNumber')
                /\ escaped' = result'.raised
                /\ display' = IF result'.raised THEN NotDisplayed(display)
                              ELSE displayResult_legacy(NotDisplayed(display),
                                    FacilityInputStr(facilitySelect, facility.address),
                                    result'.point, isAmbiguous(result'.point))
    /\ pc' = "searchByFacility"
    /\ UNCHANGED <<rev, TRAVEL_POINTS_DATA, townName, houseNumberStr,
                   FACILITY_DATA, options, facilitySelect, mode>>

\* part_000: searchByFacility; facility.address throws when find gave undefined
SearchByFacilityPart000 ==
    /\ pc \in PageReady
    /\ rev = "part_000"
    /\ mode = "facility"
    /\ IF facilitySelect = <<>>
       THEN \* alert(...); return
            /\ addressParts' = addressParts
            /\ numericHouseNumber' = numericHouseNumber
            /\ result' = NoResult
            /\ escaped' = FALSE
            /\ display' = NotDisplayed(display)
       ELSE IF FindFacility(FACILITY_DATA, facilitySelect) = 0
       THEN /\ addressParts' = addressParts
            /\ numericHouseNumber' = numericHouseNumber
            /\ result' = NoResult
            /\ escaped' = TRUE
            /\ display' = NotDisplayed(display)
       ELSE LET facility == FACILITY_DATA[FindFacility(FACILITY_DATA, facilitySelect)]
            IN  /\ addressParts' = parseAddress(facility.address)
                /\ numericHouseNumber' = parseToNumeric_strict(addressParts'.houseNumber)
                /\ result' = getTravelPoint_part000(addressParts'.townName, numericHouseNumber')
                /\ escaped' = result'.raised
                /\ display' = IF result'.raised THEN NotDisplayed(display)
                              ELSE displayResult_part000(NotDisplayed(display),
                                    FacilityInputStr(facilitySelect, facility.address),
                                    result')
    /\ pc' = "searchByFacility"
    /\ UNCHANGED <<rev, TRAVEL_POINTS_DATA, townName, houseNumberStr,
                   FACILITY_DATA, options, facilitySelect, mode>>

\* part_001: searchByFacility; facility.address throws when find gave
\* undefined, and line 179 passes numericHouseNumber, an identifier declared
\* nowhere in its scope: evaluating it throws a ReferenceError before
\* getTravelPoint is called
SearchByFacilityPart001 ==
    /\ pc \in PageReady
    /\ rev = "part_001"
    /\ mode = "facility"
    /\ IF facilitySelect = <<>>
       THEN \* alert(...); return
            /\ addressParts' = addressParts
            /\ numericHouseNumber' = numericHouseNumber
            /\ result' = NoResult
            /\ escaped' = FALSE
            /\ display' = NotDisplayed(display)
       ELSE IF FindFacility(FACILITY_DATA, facilitySelect) = 0
       THEN /\ addressParts' = addressParts
            /\ numericHouseNumber' = numericHouseNumber
            /\ result' = NoResult
            /\ escaped' = TRUE
            /\ display' = NotDisplayed(display)
       ELSE LET facility == FACILITY_DATA[FindFacility(FACILITY_DATA, facilitySelect)]
            IN  /\ addressParts' = parseAddress(facility.address)
                /\ numericHouseNumber' = parseToNumeric_legacy(addressParts'.houseNumber)
                /\ result' = NoResult
                /\ escaped' = TRUE
                /\ display' = NotDisplayed(display)
    /\ pc' = "searchByFacility"
    /\ UNCHANGED <<rev, TRAVEL_POINTS_DATA, townName, houseNumberStr,
                   FACILITY_DATA, options, facilitySelect, mode>>

\* part_002: searchByFacility; facility.address throws when find gave undefined
SearchByFacilityPart002 ==
    /\ pc \in PageReady
    /\ rev = "part_002"
    /\ mode = "facility"
    /\ IF facilitySelect = <<>>
       THEN \* alert(...); return
            /\ addressParts' = addressParts
            /\ numericHouseNumber' = numericHouseNumber
            /\ result' = NoResult
            /\ escaped' = FALSE
            /\ display' = NotDisplayed(display)
       ELSE IF FindFacility(FACILITY_DATA, facilitySelect) = 0
       THEN /\ addressParts' = addressParts
            /\ numericHouseNumber' = numericHouseNumber
            /\ result' = NoResult
            /\ escaped' = TRUE
            /\ display' = NotDisplayed(display)
       ELSE LET facility == FACILITY_DATA[FindFacility(FACILITY_DATA, facilitySelect)]
            IN  /\ addressParts' = parseAddress_part002(facility.address)
                /\ numericHouseNumber' = parseToNumeric_part002(addressParts'.houseNumber)
                /\ result' = getTravelPoint_part002(addressParts'.townName, numericHouseNumber')
                /\ escaped' = result'.raised
                /\ display' = IF result'.raised THEN NotDisplayed(display)
                              ELSE displayResult_legacy(NotDisplayed(display),
                                    FacilityInputStr(facilitySelect, facility.address),
                                    result'.point, isAmbiguous(result'.point))
    /\ pc' = "searchByFacility"
    /\ UNCHANGED <<rev, TRAVEL_POINTS_DATA, townName, houseNumberStr,
                   FACILITY_DATA, options, facilitySelect, mode>>

InitPage ==
    /\ PageNotLoaded
    /\ rev \in Revisions
    /\ TRAVEL_POINTS_DATA = DataJs
    /\ townName = <<>>
    /\ houseNumberStr = <<>>
    /\ numericHouseNumber = NaN
    /\ result = NoResult
    /\ pc = "load"

NextPage ==
    \/ InitializeAppScript
    \/ InitializeAppPart000
    \/ InitializeAppPart001
    \/ InitializeAppPart002
    \/ TypeAddress
    \/ SelectFacility
    \/ ClickModeAddress
    \/ ClickModeFacility
    \/ SearchByAddressScript
    \/ SearchByAddressPart000
    \/ SearchByAddressPart001
    \/ SearchByAddressPart002
    \/ SearchByFacilityScript
    \/ SearchByFacilityPart000
    \/ SearchByFacilityPart001
    \/ SearchByFacilityPart002

SpecPage == InitPage /\ [][NextPage]_vars

(***************************************************************************)
(* The page with one facility whose address is generated: the prefix 天草市 *)
(* absent, once (also after other text), or twice                          *)
(***************************************************************************)
AddressAlphabet == {"jou", "4", "F1", "ban", " "}
AddressBodies == StringsUpTo(AddressAlphabet, MaxAddrLen)
\* what a second occurrence of the prefix is followed by
SecondBodies == {<<>>, <<"jou">>, <<"4">>}
AddressInputs ==
    AddressBodies
    \cup {pre \o AmakusaShi \o b : pre \in {<<>>, <<"x">>}, b \in AddressBodies}
    \cup {AmakusaShi \o b \o AmakusaShi \o c : b \in AddressBodies, c \in SecondBodies}
    \cup {FacilityDataJs[i].address : i \in 1..Len(FacilityDataJs)}

InitAddress ==
    /\ PageBlank
    /\ FACILITY_DATA \in {<<Facility(Kokorasu.name, a)>> : a \in AddressInputs}
    /\ rev \in {"script", "part_000", "part_001"}
    /\ TRAVEL_POINTS_DATA = DataJs
    /\ townName = <<>>
    /\ houseNumberStr = <<>>
    /\ numericHouseNumber = NaN
    /\ result = NoResult
    /\ pc = "load"

NextAddress ==
    \/ InitializeAppScript
    \/ InitializeAppPart000
    \/ InitializeAppPart001
    \/ ClickModeFacility
    \/ SelectFacility
    \/ SearchByFacilityScript
    \/ SearchByFacilityPart000
    \/ SearchByFacilityPart001

SpecAddress == InitAddress /\ [][NextAddress]_vars

(***************************************************************************)
(* data.js with the ranges of one entry listed in another order, searched  *)
(* by part_000 for the three addresses of the specification's examples     *)
(***************************************************************************)
RangeOrders(n) == {f \in [1..n -> 1..n] : \A i, j \in 1..n : f[i] = f[j] => i = j}
\* the table whose e-th entry lists its ranges in the order f
Reordered(table, e, f) ==
    [table EXCEPT ![e].ranges = [i \in 1..Len(table[e].ranges) |->
                                    table[e].ranges[f[i]]]]
ReorderedTables ==
    {Reordered(DataJs, e, f) :
        e \in {1}, f \in RangeOrders(Len(DataJs[1].ranges))}
    \cup {Reordered(DataJs, e, f) :
            e \in {2}, f \in RangeOrders(Len(DataJs[2].ranges))}
    \cup {Reordered(DataJs, e, f) :
            e \in {3}, f \in RangeOrders(Len(DataJs[3].ranges))}

\* (浄南町, "４番１５号"), (本渡町広瀬, "1470番地"), (亀場町食場, "700番")
ExampleSearches ==
    { <<Jounanmachi, <<"F4", "ban", "F1", "F5", "gou">> >>,
      <<HondomachiHirose, <<"1", "4", "7", "0", "ban", "chi">> >>,
      <<KamebamachiJikiba, <<"7", "0", "0", "ban">> >> }

InitOrder ==
    /\ PageNotLoaded
    /\ rev = "part_000"
    /\ TRAVEL_POINTS_DATA \in ReorderedTables
    /\ \E search \in ExampleSearches :
          /\ townName = search[1]
          /\ houseNumberStr = search[2]
    /\ numericHouseNumber = NaN
    /\ result = NoResult
    /\ pc = "start"

NextOrder ==
    \/ ParseToNumericStrict
    \/ GetTravelPointPart000

SpecOrder == InitOrder /\ [][NextOrder]_vars

(***************************************************************************)
(* House-number notation, as the statements below read it                  *)
(***************************************************************************)
IsDigitChar(c) == IsStdDigit(c) \/ IsFullWidthDigit(c)

RECURSIVE LeadDigits(_)
LeadDigits(s) ==
    IF s # <<>> /\ IsDigitChar(Head(s)) THEN <<Head(s)>> \o LeadDigits(Tail(s)) ELSE <<>>

\* the length of the separator (番地, 番, 号, の, -, ー) s starts with, 0 if none
SeparatorLen(s) ==
    IF StartsWith(s, <<"ban", "chi">>) THEN 2
    ELSE IF s # <<>> /\ Head(s) \in {"ban", "gou", "no", "-", "long"} THEN 1
    ELSE 0

RECURSIVE SkipSeparators(_)
SkipSeparators(s) ==
    IF SeparatorLen(s) > 0
    THEN SkipSeparators(SubSeq(s, SeparatorLen(s) + 1, Len(s)))
    ELSE s

\* s is made of digits and separators only
RECURSIVE OnlyComponents(_)
OnlyComponents(s) ==
    IF s = <<>> THEN TRUE
    ELSE IF IsDigitChar(Head(s)) THEN OnlyComponents(Tail(s))
    ELSE SeparatorLen(s) > 0 /\ OnlyComponents(SubSeq(s, SeparatorLen(s) + 1, Len(s)))

\* s read as components: P, separators, S and further components, or P alone
\* followed by separators; ok is FALSE when s is not of that form
ComponentForm(s) ==
    LET P == LeadDigits(s)
        r1 == SubSeq(s, Len(P) + 1, Len(s))
        r2 == SkipSeparators(r1)
        S == LeadDigits(r2)
        r3 == SubSeq(r2, Len(S) + 1, Len(r2))
    IN  [ok |-> /\ P # <<>>
                /\ (r1 = <<>> \/ SeparatorLen(r1) > 0)
                /\ IF S = <<>> THEN r2 = <<>>
                   ELSE r3 = <<>> \/ (SeparatorLen(r3) > 0 /\ OnlyComponents(r3)),
         P |-> P, S |-> S, more |-> r3]

\* the number whose decimal numeral is P.S (P alone when S is empty)
Decimal(P, S) ==
    Num(DigitsToNat(MapChars(ToHalfWidth, P)),
        MapChars(DigitValue, MapChars(ToHalfWidth, S)))

HasNoDigit(s) == \A i \in 1..Len(s) : ~IsDigitChar(s[i])

IsError(point) == StartsWith(point, ErrorMarker)

(***************************************************************************)
(* C7  parseToNumeric of part_000                                          *)
(***************************************************************************)
\* C7: for every house number written as components P, S and possibly more,
\* separated by 番地, 番, 号, の, hyphen or ー, in standard or full-width
\* digits, the strict parseToNumeric gives the number P.S, and P for a
\* single component; later components do not change the key.
C7_StrictKeepsFirstTwoComponents ==
    (rev = "part_000" /\ pc # "start" /\ ComponentForm(houseNumberStr).ok)
        => numericHouseNumber = Decimal(ComponentForm(houseNumberStr).P,
                                        ComponentForm(houseNumberStr).S)

\* C7 witness: "1-2-3" has been parsed to 1.2, its third component ignored
C7_Witness ==
    /\ rev = "part_000" /\ pc = "parsed"
    /\ houseNumberStr = <<"1", "-", "2", "-", "3">>
    /\ numericHouseNumber = Num(1, <<2>>)

(***************************************************************************)
(* C8  parseToNumeric of script.js and part_001                            *)
(***************************************************************************)
\* the notations of the doc comment: "P番S号", "P番", "P-S", "PのS"
DocCommentForm(s) ==
    LET f == ComponentForm(s)
        sep == SubSeq(s, Len(f.P) + 1, Len(s) - Len(f.S) - Len(f.more))
    IN  /\ f.ok
        /\ \/ f.S # <<>> /\ sep = <<"ban">> /\ f.more = <<"gou">>
           \/ f.S = <<>> /\ sep = <<"ban">>
           \/ f.S # <<>> /\ sep \in {<<"-">>, <<"no">>} /\ f.more = <<>>

\* C8: parseToNumeric of script.js and part_001 turns "P番S号", "P-S" and
\* "PのS" into the number P.S and "P番" into P, as its doc comment states.
C8_LegacyParseAsDocumented ==
    (rev \in {"script", "part_001"} /\ pc # "start" /\ DocCommentForm(houseNumberStr))
        => numericHouseNumber = Decimal(ComponentForm(houseNumberStr).P,
                                        ComponentForm(houseNumberStr).S)

(***************************************************************************)
(* C9  house numbers without a digit                                       *)
(***************************************************************************)
\* C9: a house-number string without any digit, the empty string included,
\* never resolves to a point: parseToNumeric then getTravelPoint of part_000
\* give an error-prefixed point.
C9_NoDigitNeverResolves ==
    (rev = "part_000" /\ pc = "done" /\ HasNoDigit(houseNumberStr))
        => IsError(result.point)

(***************************************************************************)
(* C1  half-open range membership                                          *)
(***************************************************************************)
\* the range a finished call returned the location of
ResolvedRange == TRAVEL_POINTS_DATA[result.entry].ranges[result.range]

\* C1: in every revision a call resolves to a range only when
\* start <= key < end; a key equal to the range's end never resolves to it.
C1_HalfOpenInEveryRevision ==
    (pc = "done" /\ result.range # 0)
        => /\ NumGe(numericHouseNumber, ResolvedRange.start)
           /\ NumLt(numericHouseNumber, ResolvedRange.end)

(***************************************************************************)
(* C6  the fields of part_000's result                                     *)
(***************************************************************************)
\* C6 as stated: in part_000 an error-prefixed point comes with empty
\* matchedTown and rangeStr, any other point with both non-empty.
C6_FieldsOnlyOnSuccess ==
    (rev = "part_000" /\ pc = "done")
        => /\ IsError(result.point)
                => result.matchedTown = <<>> /\ result.rangeStr = <<>>
           /\ ~IsError(result.point)
                => result.matchedTown # <<>> /\ result.rangeStr # <<>>

\* C6 amended: in part_000 the town-not-found and the exception errors
\* come with empty matchedTown and rangeStr; the range-not-found error comes
\* with the matched entry's town and an empty rangeStr; a point that is not
\* error-prefixed comes with the matched entry's town (non-empty, as the
\* table's keys are) and a non-empty rangeStr.
C6_FieldsByOutcome ==
    (rev = "part_000" /\ pc = "done")
        => /\ result.point \in {TownNotFoundMessage(townName), ExceptionMessage}
                => result.matchedTown = <<>> /\ result.rangeStr = <<>>
           /\ result.point = RangeNotFoundMessage
                => /\ result.matchedTown = TRAVEL_POINTS_DATA[result.entry].town
                   /\ result.rangeStr = <<>>
           /\ IsError(result.point)
                => result.point \in {TownNotFoundMessage(townName), ExceptionMessage,
                                     RangeNotFoundMessage}
           /\ ~IsError(result.point)
                => /\ result.matchedTown = TRAVEL_POINTS_DATA[result.entry].town
                   /\ result.matchedTown # <<>>
                   /\ result.rangeStr # <<>>

\* C6 witness: part_000 returned the range-not-found error naming 浄南町
C6_Witness ==
    /\ rev = "part_000" /\ pc = "done"
    /\ result.point = RangeNotFoundMessage
    /\ result.matchedTown = Jounanmachi
    /\ result.rangeStr = <<>>

(***************************************************************************)
(* C10  getTravelPoint never raises                                        *)
(***************************************************************************)
\* C10: in every revision a call of getTravelPoint returns normally, also
\* when the matched entry's ranges list is missing or holds a null element.
C10_NeverRaises == pc = "done" => ~result.raised

(***************************************************************************)
(* C2, C3, C4, C5  town matching                                           *)
(***************************************************************************)
\* the entry a finished call selected
SelectedEntry == TRAVEL_POINTS_DATA[result.entry]

\* key and input are equal, or equal once a trailing 町 is stripped from both
EqualUpToMachi(key, town) == key = town \/ StripMachi(key) = StripMachi(town)

\* C2: in every revision the matching step selects an entry only if its key
\* equals the input exactly or once a trailing 町 is stripped from both.
C2_NoSubstringMatch ==
    (pc = "done" /\ result.via = "match")
        => EqualUpToMachi(SelectedEntry.town, townName)

\* C3: in part_000, when some key equals the input exactly, the entry
\* selected is the first exactly-equal entry in table order.
C3_ExactTierFirst ==
    (rev = "part_000" /\ pc = "done"
       /\ \E i \in 1..Len(TRAVEL_POINTS_DATA) : TRAVEL_POINTS_DATA[i].town = townName)
        => /\ result.entry # 0
           /\ SelectedEntry.town = townName
           /\ \A j \in 1..(result.entry - 1) : TRAVEL_POINTS_DATA[j].town # townName

ContainsExcludedName(town) ==
    \E ex \in {<<"higashi", "machi">>, <<"jou", "nan", "machi">>,
                <<"oo", "ta", "machi">>} : Includes(town, ex)
HasCatchAll(table) ==
    \E i \in 1..Len(table) :
        table[i].town = <<"higashi", "ten", "jou", "nan", "ten", "oo", "ta",
                          "machi", "i", "gai">>

\* C4: in every revision, when the matching step selects nothing, the
\* catch-all entry is selected iff it is in the table and the input contains
\* none of 東町, 浄南町, 太田町; an unmatched input containing one of them
\* gets the town-not-found error.
C4_CatchAllFallback ==
    (pc = "done" /\ result.via # "match")
        => /\ (result.via = "fallback")
                <=> (HasCatchAll(TRAVEL_POINTS_DATA) /\ ~ContainsExcludedName(townName))
           /\ ContainsExcludedName(townName)
                => /\ result.entry = 0
                   /\ IsError(result.point)
                   /\ Includes(result.point, townName)

\* the result is the town-not-found error naming the town, no other field set
IsTownNotFound(res, town) ==
    /\ ~res.raised
    /\ IsError(res.point)
    /\ Includes(res.point, <<"[">> \o town \o <<"]">>)
    /\ res.matchedTown = <<>>
    /\ res.rangeStr = <<>>

\* C5 as stated: on data.js, part_000 gives the town-not-found error for
\* every town that equals no key exactly or once a trailing 町 is stripped
\* from both, whatever the key.
C5_UnknownTown ==
    (rev = "part_000" /\ pc = "done"
       /\ \A i \in 1..Len(TRAVEL_POINTS_DATA) :
              ~EqualUpToMachi(TRAVEL_POINTS_DATA[i].town, townName))
        => IsTownNotFound(result, townName)

\* key and input are equal, or equal once a trailing 町 and then the
\* surrounding white space are stripped from both
EqualUpToMachiAndSpace(key, town) ==
    key = town \/ Trim(StripMachi(key)) = Trim(StripMachi(town))

\* C5 amended: on data.js, part_000 gives the town-not-found error for every
\* town that equals no key exactly or once a trailing 町 and then the
\* surrounding white space are stripped from both, whatever the key.
C5_UnknownTownUpToSpace ==
    (rev = "part_000" /\ pc = "done"
       /\ \A i \in 1..Len(TRAVEL_POINTS_DATA) :
              ~EqualUpToMachiAndSpace(TRAVEL_POINTS_DATA[i].town, townName))
        => IsTownNotFound(result, townName)

\* C5 witness: 存在しない町 got the town-not-found error from part_000
C5_Witness ==
    /\ rev = "part_000" /\ pc = "done"
    /\ townName = <<"son", "zai", "shi", "na", "i3", "machi">>
    /\ IsTownNotFound(result, townName)

(***************************************************************************)
(* The page                                                                *)
(***************************************************************************)
\* the last handler run called displayResult once, with what getTravelPoint
\* returned, and no exception left it
DisplayedOnce ==
    /\ ~escaped
    /\ display.calls = 1
    /\ display.point = result.point
    /\ display.style \in {"error", "ambiguous", "success"}

\* C11: in every revision, a searchByAddress with a non-empty town and house
\* number, and a searchByFacility with a facility picked from the dropdown,
\* ends with displayResult called exactly once with the resolution result;
\* no exception leaves the handler.
C11_SearchAlwaysDisplays ==
    /\ (pc = "searchByAddress" /\ townName # <<>> /\ houseNumberStr # <<>>)
           => DisplayedOnce
    /\ (pc = "searchByFacility" /\ facilitySelect # <<>>) => DisplayedOnce

\* the location of the range the last call resolved to
ResolvedLocation == TRAVEL_POINTS_DATA[result.entry].ranges[result.range].location
\* the location names two points joined by "or"
NamesTwoPoints(location) == \E i \in 1..(Len(location) - 1) :
                                location[i] = "o" /\ location[i + 1] = "r"

\* C12: when a key resolves to a range whose location contains "or", the
\* point returned is exactly that location, and the page shows it marked
\* ambiguous, not as an error; and a point that is error-prefixed is always
\* shown as an error, never as ambiguous or successful.
C12_AmbiguousPassedThroughAndFlagged ==
    /\ (result.range > 0 /\ NamesTwoPoints(ResolvedLocation)) =>
           /\ result.point = ResolvedLocation
           /\ display.calls = 1
           /\ display.point = ResolvedLocation
           /\ display.style = "ambiguous"
    /\ IsError(result.point) =>
           /\ display.calls = 1
           /\ display.point = result.point
           /\ display.style = "error"

\* a search resolved to a range of two points and displayed it
C12_Witness ==
    /\ pc \in {"searchByAddress", "searchByFacility"}
    /\ display.calls = 1
    /\ result.range > 0
    /\ NamesTwoPoints(ResolvedLocation)
    /\ display.style = "ambiguous"

(***************************************************************************)
(* parseAddress                                                            *)
(***************************************************************************)
\* searchByFacility has parsed the address of the facility picked
ParsedAddress ==
    /\ pc = "searchByFacility"
    /\ facilitySelect # <<>>
    /\ \E i \in 1..Len(FACILITY_DATA) : FACILITY_DATA[i].name = facilitySelect
\* that address
PickedAddress ==
    (CHOOSE f \in {FACILITY_DATA[i] : i \in 1..Len(FACILITY_DATA)} :
         f.name = facilitySelect).address

\* where 天草市 occurs in an address
PrefixAt(full) ==
    {i \in 1..(Len(full) - 2) :
        full[i] = "ama" /\ full[i + 1] = "kusa" /\ full[i + 2] = "ichi"}
\* the text after the first occurrence of 天草市, to the end of the string
WorkingAddress(full) ==
    LET first == CHOOSE i \in PrefixAt(full) : \A j \in PrefixAt(full) : i <= j
    IN  SubSeq(full, first + 3, Len(full))
WithoutSpaces(s) == SelectSeq(s, LAMBDA c : c # " ")

\* C13: for an address that holds 天草市 once or more, town name and house
\* number are taken from everything after the first occurrence, to the end
\* of the string: together they hold all of that text (white space aside),
\* also what follows a second occurrence.
C13_WorksOnTextAfterFirstPrefix ==
    (ParsedAddress /\ PrefixAt(PickedAddress) # {}) =>
        WithoutSpaces(addressParts.townName \o addressParts.houseNumber)
            = WithoutSpaces(WorkingAddress(PickedAddress))

\* the positions of the digits, standard or full-width, of a text
DigitsAt(s) == {i \in 1..Len(s) : IsDigitChar(s[i])}
FirstDigitAt(s) == CHOOSE i \in DigitsAt(s) : \A j \in DigitsAt(s) : i <= j

\* C14: the house number is the text from the first digit of the remainder
\* to the end, the town name the text before that digit, both trimmed (the
\* town name is empty when the remainder starts with a digit); without a
\* digit the town name is the whole remainder and the house number is empty.
\* Stated for addresses that hold 天草市 once, where the remainder is the
\* text after it.
C14_SplitsAtFirstDigit ==
    (ParsedAddress /\ Cardinality(PrefixAt(PickedAddress)) = 1) =>
        LET remainder == WorkingAddress(PickedAddress)
        IN  IF DigitsAt(remainder) = {}
            THEN /\ addressParts.townName = Trim(remainder)
                 /\ addressParts.houseNumber = <<>>
            ELSE /\ addressParts.townName =
                        Trim(SubSeq(remainder, 1, FirstDigitAt(remainder) - 1))
                 /\ addressParts.houseNumber =
                        Trim(SubSeq(remainder, FirstDigitAt(remainder), Len(remainder)))

(***************************************************************************)
(* C15  the examples of the specification, end to end                      *)
(***************************************************************************)
\* the finished search resolved, with this key, to the entry of this town and
\* its range [start, end), and returned this point
ResolvedTo(key, town, start, end, point) ==
    /\ numericHouseNumber = key
    /\ result.entry > 0
    /\ TRAVEL_POINTS_DATA[result.entry].town = town
    /\ result.range > 0
    /\ ResolvedRange.start = Whole(start)
    /\ ResolvedRange.end = Whole(end)
    /\ result.point = point
    /\ result.matchedTown = town

\* C15: on data.js, part_000 resolves (浄南町, "４番１５号") with key 4.15 to
\* the range [0,5) of 浄南町 and the point 本渡; (本渡町広瀬, "1470番地") with
\* key 1470 to [1470,2080) and 佐伊津; (亀場町食場, "700番") to 枦宇土; and
\* the same in whatever order the entry's ranges are listed.
C15_ExamplesEndToEnd ==
    pc = "done" =>
        /\ townName = Jounanmachi =>
               ResolvedTo(Num(4, <<1, 5>>), Jounanmachi, 0, 5, <<"hon", "do">>)
        /\ townName = HondomachiHirose =>
               ResolvedTo(Whole(1470), HondomachiHirose, 1470, 2080,
                          <<"sa", "i2", "tsu">>)
        /\ townName = KamebamachiJikiba =>
               ResolvedTo(Whole(700), KamebamachiJikiba, 700, 800,
                          <<"haji", "u", "to">>)

\* 本渡町広瀬 1470番地 resolved on a table that lists [1470,2080) last
C15_Witness ==
    /\ pc = "done"
    /\ townName = HondomachiHirose
    /\ houseNumberStr = <<"1", "4", "7", "0", "ban", "chi">>
    /\ TRAVEL_POINTS_DATA # DataJs
    /\ result.range = 3
    /\ result.point = <<"sa", "i2", "tsu">>

(***************************************************************************)
(* C16  the reference data                                                 *)
(***************************************************************************)
\* C16: after any sequence of initializeApp, mode-switch clicks,
\* searchByAddress and searchByFacility (with their getTravelPoint calls),
\* in every revision, TRAVEL_POINTS_DATA and FACILITY_DATA hold the elements
\* they were loaded with from data.js, in the same order.
C16_ReferenceDataNeverWritten ==
    /\ TRAVEL_POINTS_DATA = DataJs
    /\ FACILITY_DATA = FacilityDataJs

(***************************************************************************)
(* C17, C18  the range loops on generated entries                          *)
(***************************************************************************)
\* a finished call whose town matched the one entry of the table, and whose
\* ranges are a list of ranges with numbers for bounds, in any order
LookedUpRanges ==
    /\ pc = "done"
    /\ Len(TRAVEL_POINTS_DATA) = 1
    /\ townName = TRAVEL_POINTS_DATA[1].town
    /\ TRAVEL_POINTS_DATA[1].hasRanges
    /\ \A i \in 1..Len(TRAVEL_POINTS_DATA[1].ranges) :
          TRAVEL_POINTS_DATA[1].ranges[i].ok
TheRanges == TRAVEL_POINTS_DATA[1].ranges
\* start <= key < end, the bounds being whole numbers
Within(key, range) ==
    /\ ~key.nan
    /\ range.start.ip <= key.ip
    /\ key.ip < range.end.ip
\* the ranges the key is within
RangesWithin(key) == {i \in 1..Len(TheRanges) : Within(key, TheRanges[i])}
LowestWithin(key) ==
    CHOOSE i \in RangesWithin(key) : \A j \in RangesWithin(key) : i <= j

\* C17: part_000 returns, for ranges in any order, overlapping or with gaps,
\* and for any key, the location of the lowest-index range with
\* start <= key < end and a rangeStr of that range's start and end; and the
\* range-not-found error, naming the matched town, with an empty rangeStr,
\* exactly when no range has start <= key < end.
C17_FirstHalfOpenMatchInTableOrder ==
    (LookedUpRanges /\ rev = "part_000") =>
        /\ result.matchedTown = TRAVEL_POINTS_DATA[1].town
        /\ IF RangesWithin(numericHouseNumber) = {}
           THEN /\ result.point = RangeNotFoundMessage
                /\ result.rangeStr = <<>>
           ELSE /\ result.point # RangeNotFoundMessage
                /\ result.point = TheRanges[LowestWithin(numericHouseNumber)].location
                /\ result.rangeStr =
                       RangeString(TheRanges[LowestWithin(numericHouseNumber)].start,
                                   TheRanges[LowestWithin(numericHouseNumber)].end)

\* part_000 resolved a key that two listed ranges hold
C17_Witness ==
    /\ LookedUpRanges
    /\ rev = "part_000"
    /\ Cardinality(RangesWithin(numericHouseNumber)) > 1
    /\ result.range = LowestWithin(numericHouseNumber)

\* sorted and contiguous: start < end, and each end is the next start
WellFormed(ranges) ==
    /\ ranges # <<>>
    /\ \A i \in 1..Len(ranges) : ranges[i].start.ip < ranges[i].end.ip
    /\ \A i \in 1..(Len(ranges) - 1) : ranges[i].end = ranges[i + 1].start

\* C18: on an entry whose ranges are sorted and contiguous, and for every key
\* but the end of the last range, the loops of script.js and part_001 return
\* what the loop of part_000 returns: the same location, or the same
\* range-not-found error.
C18_DeferralAgreesWithHalfOpen ==
    (/\ LookedUpRanges
     /\ rev \in {"script", "part_001"}
     /\ WellFormed(TheRanges)
     /\ numericHouseNumber # TheRanges[Len(TheRanges)].end) =>
        LET strict == getTravelPoint("part_000", TRAVEL_POINTS_DATA, townName,
                                     numericHouseNumber)
        IN  /\ result.point = strict.point
            /\ result.range = strict.range
            /\ ~result.raised

\* script.js or part_001 looked up the key at which one range ends and the
\* next starts, and returned the next
C18_Witness ==
    /\ LookedUpRanges
    /\ rev \in {"script", "part_001"}
    /\ WellFormed(TheRanges)
    /\ Len(TheRanges) > 1
    /\ numericHouseNumber = TheRanges[1].end
    /\ result.range = 2

====
